---------------------------- MODULE Spec2Model ----------------------------
(***************************************************************************)
(* Flash-loan sandwich trap: the detector FlashSandwichTrap, its alert     *)
(* builder, the SimpleFlashSandwichTrap variant and the monitoring loop of *)
(* run.py.                                                                 *)
(*                                                                         *)
(* Amounts are whole currency units; price impacts are whole percents      *)
(* (5 stands for 5.0).                                                     *)
(***************************************************************************)
EXTENDS Integers, Sequences, FiniteSets, TLC

VARIABLES
    trap,               \* the FlashSandwichTrap object: its three fields
    historical_data,    \* the window: list of CollectedData, oldest first
    responded,          \* values should_respond returned on the current window
    alerts,             \* values get_alert_details returned on the current window
    simple_responded,   \* values SimpleFlashSandwichTrap.should_respond returned
    current_block,      \* run.py: connector.w3.eth.block_number
    block_num,          \* run.py: the loop variable
    pc,                 \* run.py: "api" (no loop), "loop", "done"
    emitted,            \* run.py: number of alerts printed
    evaluated           \* run.py: number of should_respond evaluations

vars == <<trap, historical_data, responded, alerts, simple_responded,
          current_block, block_num, pc, emitted, evaluated>>

----------------------------------------------------------------------------
(* Bounds and program constants *)

\* Longest window the API specification builds.
MaxWindow == 3

\* run.py: start_block = current_block - 10
LoopBlocks == 10

DefaultMinPriceImpact == 5
DefaultMinFlashLoanSize == 100000
DefaultMaxBlocksBetween == 1

SimplePriceImpactThreshold == 5
SimpleFlashLoanThreshold == 100000

----------------------------------------------------------------------------
(* Event model *)

FlashLoan(borrower, amount, tx_hash) ==
    [borrower |-> borrower, token |-> "USDC", amount |-> amount,
     tx_hash |-> tx_hash]

Swap(trader, price_impact, tx_hash) ==
    [trader |-> trader, token_in |-> "ETH", token_out |-> "USDC",
     amount_in |-> 500000, amount_out |-> 250,
     price_impact |-> price_impact, tx_hash |-> tx_hash]

CollectedData(flash_loans, swaps, block_number, timestamp) ==
    [flash_loans |-> flash_loans, swaps |-> swaps,
     block_number |-> block_number, timestamp |-> timestamp]

\* The events the chain data source delivers in the model.
LoanSmall  == FlashLoan("0xUser1", 50000, "0xTx1")
LoanEdge   == FlashLoan("0xUser2", 100000, "0xTx2")
LoanAttack == FlashLoan("0xAttacker", 500000, "0xTx3")

SwapLow       == Swap("0xUser2", 1, "0xTx2")
SwapSameTx    == Swap("0xUser1", 5, "0xTx3")
SwapSameActor == Swap("0xAttacker", 9, "0xTx4")

\* What get_flash_loans / get_swaps return for one block.
BlockEvents ==
    { [loans |-> <<>>,                    swaps |-> <<>>],
      [loans |-> <<LoanSmall>>,           swaps |-> <<SwapLow>>],
      [loans |-> <<LoanAttack>>,          swaps |-> <<>>],
      [loans |-> <<LoanEdge>>,            swaps |-> <<>>],
      [loans |-> <<>>,                    swaps |-> <<SwapSameActor>>],
      [loans |-> <<>>,                    swaps |-> <<SwapSameTx>>],
      [loans |-> <<LoanSmall, LoanEdge>>, swaps |-> <<SwapLow, SwapSameActor>>],
      [loans |-> <<LoanAttack>>,          swaps |-> <<SwapSameTx>>] }

\* The blocks the monitoring loop meets in the model.
LoopEvents ==
    { [loans |-> <<>>,           swaps |-> <<>>],
      [loans |-> <<LoanAttack>>, swaps |-> <<>>],
      [loans |-> <<>>,           swaps |-> <<SwapSameActor>>] }

\* Chain heads the loop starts from.
ChainHeads == {1010}

----------------------------------------------------------------------------
(* FlashSandwichTrap *)

\* config dicts handed to the constructor; a missing key takes its default
ConfigDicts ==
    { [k \in {} |-> 0],
      [max_blocks_between |-> 0],
      [max_blocks_between |-> 2],
      [min_price_impact |-> 9],
      [min_flash_loan_size |-> 200000],
      [min_price_impact |-> 9, min_flash_loan_size |-> 200000,
       max_blocks_between |-> 1] }

Get(config, key, default) ==
    IF key \in DOMAIN config THEN config[key] ELSE default

TrapInit(config) ==
    [min_price_impact    |-> Get(config, "min_price_impact", DefaultMinPriceImpact),
     min_flash_loan_size |-> Get(config, "min_flash_loan_size", DefaultMinFlashLoanSize),
     max_blocks_between  |-> Get(config, "max_blocks_between", DefaultMaxBlocksBetween)]

\* Variant: a look-back of three bundles, historical_data[-3:].
RecentBlocksThree(data) ==
    IF Len(data) >= 3 THEN SubSeq(data, Len(data) - 2, Len(data)) ELSE data

\* historical_data[-2:] if len(historical_data) >= 2 else historical_data
RecentBlocks(data) ==
    IF Len(data) >= 2 THEN SubSeq(data, Len(data) - 1, Len(data)) ELSE data

RECURSIVE LoansOf(_)
LoansOf(blocks) ==
    IF blocks = <<>> THEN <<>>
    ELSE Head(blocks).flash_loans \o LoansOf(Tail(blocks))

RECURSIVE SwapsOf(_)
SwapsOf(blocks) ==
    IF blocks = <<>> THEN <<>>
    ELSE Head(blocks).swaps \o SwapsOf(Tail(blocks))

\* Variant: the comparison turned round, loan.amount <= min_flash_loan_size.
LoanQualifiesInverted(self, loan) == loan.amount <= self.min_flash_loan_size

LoanQualifies(self, loan) == loan.amount >= self.min_flash_loan_size

SwapQualifies(self, swap) == swap.price_impact >= self.min_price_impact

\* Step 1
QualifyingLoans(self, recent_blocks) ==
    SelectSeq(LoansOf(recent_blocks), LAMBDA loan : LoanQualifies(self, loan))

\* Step 2
HighImpactSwaps(self, recent_blocks) ==
    SelectSeq(SwapsOf(recent_blocks), LAMBDA swap : SwapQualifies(self, swap))

\* Variant: only the same-transaction relation, the borrower check dropped.
RelatedSameTxOnly(loan, swap) == loan.tx_hash = swap.tx_hash

\* Step 3, one pair
Related(loan, swap) ==
    \/ loan.tx_hash = swap.tx_hash
    \/ loan.borrower = swap.trader

ShouldRespond(self, data) ==
    IF Len(data) < 1 THEN FALSE
    ELSE LET recent_blocks == RecentBlocks(data)
             flash_loans == QualifyingLoans(self, recent_blocks)
             high_impact_swaps == HighImpactSwaps(self, recent_blocks)
         IN  IF flash_loans = <<>> THEN FALSE
             ELSE IF high_impact_swaps = <<>> THEN FALSE
             ELSE \E i \in 1..Len(flash_loans), j \in 1..Len(high_impact_swaps) :
                     Related(flash_loans[i], high_impact_swaps[j])

\* historical_data[-2:]
LastTwo(data) ==
    SubSeq(data, IF Len(data) >= 2 THEN Len(data) - 1 ELSE 1, Len(data))

\* Variant: a strict comparison, loan.amount > min_flash_loan_size.
AlertLoanFilterStrict(self, loan) == loan.amount > self.min_flash_loan_size

AlertLoanFilter(self, loan) == loan.amount >= self.min_flash_loan_size

AlertSwapFilter(self, swap) == swap.price_impact >= self.min_price_impact

LoanEntry(loan) ==
    [borrower |-> loan.borrower, amount |-> loan.amount, tx |-> loan.tx_hash]

SwapEntry(swap) ==
    [trader |-> swap.trader, price_impact |-> swap.price_impact,
     tx |-> swap.tx_hash]

RECURSIVE MapLoans(_)
MapLoans(loans) ==
    IF loans = <<>> THEN <<>>
    ELSE <<LoanEntry(Head(loans))>> \o MapLoans(Tail(loans))

RECURSIVE MapSwaps(_)
MapSwaps(swaps) ==
    IF swaps = <<>> THEN <<>>
    ELSE <<SwapEntry(Head(swaps))>> \o MapSwaps(Tail(swaps))

\* flash_loans.extend([... for loan in block.flash_loans if ...]), block by block
RECURSIVE AlertLoans(_, _)
AlertLoans(self, blocks) ==
    IF blocks = <<>> THEN <<>>
    ELSE MapLoans(SelectSeq(Head(blocks).flash_loans,
                            LAMBDA loan : AlertLoanFilter(self, loan)))
         \o AlertLoans(self, Tail(blocks))

\* swaps.extend([... for swap in block.swaps if ...]), block by block
RECURSIVE AlertSwaps(_, _)
AlertSwaps(self, blocks) ==
    IF blocks = <<>> THEN <<>>
    ELSE MapSwaps(SelectSeq(Head(blocks).swaps,
                            LAMBDA swap : AlertSwapFilter(self, swap)))
         \o AlertSwaps(self, Tail(blocks))

BlocksAnalyzed(self, data) == Len(data)

GetAlertDetails(self, data) ==
    LET recent_blocks == LastTwo(data)
    IN  [attack_type       |-> "flash_loan_sandwich",
         severity          |-> "HIGH",
         flash_loans       |-> AlertLoans(self, recent_blocks),
         high_impact_swaps |-> AlertSwaps(self, recent_blocks),
         blocks_analyzed   |-> BlocksAnalyzed(self, data)]

----------------------------------------------------------------------------
(* SimpleFlashSandwichTrap *)

RECURSIVE Amounts(_)
Amounts(loans) ==
    IF loans = <<>> THEN <<>>
    ELSE <<Head(loans).amount>> \o Amounts(Tail(loans))

RECURSIVE Impacts(_)
Impacts(swaps) ==
    IF swaps = <<>> THEN <<>>
    ELSE <<Head(swaps).price_impact>> \o Impacts(Tail(swaps))

\* The dict of SimpleFlashSandwichTrap.collect, filled with the loan amounts
\* and the price changes of one block.
SimpleBlock(block) ==
    [block         |-> block.block_number,
     flash_loans   |-> Amounts(block.flash_loans),
     price_impacts |-> Impacts(block.swaps)]

RECURSIVE SimpleBlocks(_)
SimpleBlocks(data) ==
    IF data = <<>> THEN <<>>
    ELSE <<SimpleBlock(Head(data))>> \o SimpleBlocks(Tail(data))

\* Variant: no look-back, every block of the list is inspected.
SimpleRecentAll(last_blocks) == last_blocks

\* last_blocks[-2:] if len(last_blocks) >= 2 else last_blocks
SimpleRecent(last_blocks) ==
    IF Len(last_blocks) >= 2
    THEN SubSeq(last_blocks, Len(last_blocks) - 1, Len(last_blocks))
    ELSE last_blocks

HasLargeLoan(recent) ==
    \E b \in 1..Len(recent) : \E i \in 1..Len(recent[b].flash_loans) :
        recent[b].flash_loans[i] >= SimpleFlashLoanThreshold

\* Variant: a strict comparison, impact > price_impact_threshold.
HasPriceImpactStrict(recent) ==
    \E b \in 1..Len(recent) : \E i \in 1..Len(recent[b].price_impacts) :
        recent[b].price_impacts[i] > SimplePriceImpactThreshold

HasPriceImpact(recent) ==
    \E b \in 1..Len(recent) : \E i \in 1..Len(recent[b].price_impacts) :
        recent[b].price_impacts[i] >= SimplePriceImpactThreshold

SimpleShouldRespond(last_blocks) ==
    IF Len(last_blocks) < 1 THEN FALSE
    ELSE LET recent == SimpleRecent(last_blocks)
         IN  HasLargeLoan(recent) /\ HasPriceImpact(recent)

----------------------------------------------------------------------------
(* The trap's API applied to a window that grows block by block *)

\* run.py: collected = CollectedData(loans, swaps, block_num, 0);
\*         historical_data.append(collected)
Appended(data, ev, number) ==
    Append(data, CollectedData(ev.loans, ev.swaps, number, 0))

Init ==
    /\ trap \in {TrapInit(config) : config \in ConfigDicts}
    /\ historical_data = <<>>
    /\ responded = {}
    /\ alerts = {}
    /\ simple_responded = {}
    /\ current_block \in ChainHeads
    /\ block_num = current_block - LoopBlocks
    /\ pc = "api"
    /\ emitted = 0
    /\ evaluated = 0

AppendBlock ==
    /\ pc = "api"
    /\ Len(historical_data) < MaxWindow
    /\ \E ev \in BlockEvents :
          historical_data' = Appended(historical_data, ev, block_num)
    /\ block_num' = block_num + 1
    /\ responded' = {}
    /\ alerts' = {}
    /\ simple_responded' = {}
    /\ UNCHANGED <<trap, current_block, pc, emitted, evaluated>>

\* Variant: should_respond pops the newest bundle off the window.
CallShouldRespondConsuming ==
    /\ pc = "api"
    /\ responded' = responded \cup {ShouldRespond(trap, historical_data)}
    /\ historical_data' =
          SubSeq(historical_data, 1, Len(historical_data) - 1)
    /\ UNCHANGED <<trap, alerts, simple_responded,
                   current_block, block_num, pc, emitted, evaluated>>

CallShouldRespond ==
    /\ pc = "api"
    /\ responded' = responded \cup {ShouldRespond(trap, historical_data)}
    /\ UNCHANGED <<trap, historical_data, alerts, simple_responded,
                   current_block, block_num, pc, emitted, evaluated>>

CallGetAlertDetails ==
    /\ pc = "api"
    /\ alerts' = alerts \cup {GetAlertDetails(trap, historical_data)}
    /\ UNCHANGED <<trap, historical_data, responded, simple_responded,
                   current_block, block_num, pc, emitted, evaluated>>

CallSimpleShouldRespond ==
    /\ pc = "api"
    /\ simple_responded' =
          simple_responded \cup {SimpleShouldRespond(SimpleBlocks(historical_data))}
    /\ UNCHANGED <<trap, historical_data, responded, alerts,
                   current_block, block_num, pc, emitted, evaluated>>

Next ==
    \/ AppendBlock
    \/ CallShouldRespond
    \/ CallGetAlertDetails
    \/ CallSimpleShouldRespond

Spec == Init /\ [][Next]_vars

----------------------------------------------------------------------------
(* The monitoring loop of run.py *)

LoopInit ==
    /\ trap \in {TrapInit(config) : config \in ConfigDicts}
    /\ historical_data = <<>>
    /\ responded = {}
    /\ alerts = {}
    /\ simple_responded = {}
    /\ current_block \in ChainHeads
    /\ block_num = current_block - LoopBlocks
    /\ pc = "loop"
    /\ emitted = 0
    /\ evaluated = 0

\* Variant: the break is missing.
AfterCheckNoBreak(found) == "loop"

\* if trap.should_respond(...): ...; break   else: print(...)
AfterCheck(found) == IF found THEN "done" ELSE "loop"

\* One pass of the for body: collect, append, check, alert and break.
LoopIteration ==
    /\ pc = "loop"
    /\ block_num < current_block
    /\ \E ev \in LoopEvents :
          LET data == Appended(historical_data, ev, block_num)
              found == ShouldRespond(trap, data)
          IN  /\ historical_data' = data
              /\ responded' = {found}
              /\ evaluated' = evaluated + 1
              /\ alerts' = IF found THEN {GetAlertDetails(trap, data)} ELSE {}
              /\ emitted' = IF found THEN emitted + 1 ELSE emitted
              /\ pc' = AfterCheck(found)
              /\ block_num' = IF AfterCheck(found) = "done"
                              THEN block_num ELSE block_num + 1
    /\ UNCHANGED <<trap, simple_responded, current_block>>

\* range(start_block, current_block) is exhausted
LoopExit ==
    /\ pc = "loop"
    /\ block_num >= current_block
    /\ pc' = "done"
    /\ UNCHANGED <<trap, historical_data, responded, alerts, simple_responded,
                   current_block, block_num, emitted, evaluated>>

LoopNext == LoopIteration \/ LoopExit

LoopSpec == LoopInit /\ [][LoopNext]_vars /\ WF_vars(LoopNext)

----------------------------------------------------------------------------
(* Properties *)

Min(a, b) == IF a <= b THEN a ELSE b

\* The look-back view of n bundles: the last min(n, len) bundles, oldest first.
LookBack(data, n) ==
    SubSeq(data, Len(data) - Min(n, Len(data)) + 1, Len(data))

DefaultLookBack == LookBack(historical_data, DefaultMaxBlocksBetween + 1)

\* Some loan and some swap of the view meet the thresholds of self.
QualifyingPairIn(self, view) ==
    \E b1 \in 1..Len(view), b2 \in 1..Len(view) :
      \E i \in 1..Len(view[b1].flash_loans), j \in 1..Len(view[b2].swaps) :
        /\ view[b1].flash_loans[i].amount >= self.min_flash_loan_size
        /\ view[b2].swaps[j].price_impact >= self.min_price_impact

\* Some loan and some swap of the view meet the thresholds of self and share
\* a transaction or an address.
RelatedPairIn(self, view) ==
    \E b1 \in 1..Len(view), b2 \in 1..Len(view) :
      \E i \in 1..Len(view[b1].flash_loans), j \in 1..Len(view[b2].swaps) :
        LET loan == view[b1].flash_loans[i]
            swap == view[b2].swaps[j]
        IN  /\ loan.amount >= self.min_flash_loan_size
            /\ swap.price_impact >= self.min_price_impact
            /\ (loan.tx_hash = swap.tx_hash \/ loan.borrower = swap.trader)

C2_LookBackFollowsConfig ==
    \A r \in responded :
        r = RelatedPairIn(trap, LookBack(historical_data,
                                         trap.max_blocks_between + 1))

\* C3: the alert's blocks_analyzed is the number of bundles of the look-back
\* view, min(max_blocks_between + 1, len(window)), not the length of the
\* whole window.
C3_BlocksAnalyzedIsLookBack ==
    \A a \in alerts :
        a.blocks_analyzed =
            Min(trap.max_blocks_between + 1, Len(historical_data))

LoanThresholds == {50000, 100000, 100001, 200000, 500000, 500001}

ImpactThresholds == {1, 5, 6, 9, 10}

\* The trap with neither threshold lowered.
Raised(self) ==
    { [self EXCEPT !.min_flash_loan_size = a, !.min_price_impact = p] :
        a \in {x \in LoanThresholds : x >= self.min_flash_loan_size},
        p \in {x \in ImpactThresholds : x >= self.min_price_impact} }

\* C4: a window on which should_respond is false stays false under any
\* thresholds of which either is raised and neither is lowered.
C4_RaisingNeverTurnsTrue ==
    FALSE \in responded =>
        \A other \in Raised(trap) : ~ShouldRespond(other, historical_data)

\* should_respond returned false under raised thresholds on a window on which
\* the default thresholds respond.
C4_Witness ==
    /\ pc = "api"
    /\ responded = {FALSE}
    /\ trap.min_flash_loan_size > DefaultMinFlashLoanSize
    /\ trap \in Raised(TrapInit([k \in {} |-> 0]))
    /\ ShouldRespond(TrapInit([k \in {} |-> 0]), historical_data)

\* A qualifying loan in some block N and a qualifying swap by the same
\* address, in another transaction, in the newest bundle, N + 2 or later.
DistantSameActorPair ==
    LET n == Len(historical_data)
    IN  \E b \in 1..n :
          /\ historical_data[b].block_number + 2 <= historical_data[n].block_number
          /\ \E i \in 1..Len(historical_data[b].flash_loans),
                j \in 1..Len(historical_data[n].swaps) :
               LET loan == historical_data[b].flash_loans[i]
                   swap == historical_data[n].swaps[j]
               IN  /\ loan.amount >= trap.min_flash_loan_size
                   /\ swap.price_impact >= trap.min_price_impact
                   /\ loan.borrower = swap.trader
                   /\ loan.tx_hash /= swap.tx_hash

\* C5: with max_blocks_between = 1 and one bundle per block in ascending
\* order, a qualifying loan in block N and a qualifying swap by the same
\* address in block N + 2 or later are not correlated: should_respond is
\* false when the last two bundles hold no related qualifying pair.
C5_DistantPairNotCorrelated ==
    ( /\ trap.max_blocks_between = 1
      /\ DistantSameActorPair
      /\ ~RelatedPairIn(trap, LookBack(historical_data, 2)) )
    => \A r \in responded : r = FALSE

C5_Witness ==
    /\ pc = "api"
    /\ trap.max_blocks_between = 1
    /\ DistantSameActorPair
    /\ ~RelatedPairIn(trap, LookBack(historical_data, 2))
    /\ responded = {FALSE}

C7_AlertListsQualifying ==
    \A a \in alerts :
        /\ a.attack_type = "flash_loan_sandwich"
        /\ a.severity = "HIGH"
        /\ a.flash_loans =
             MapLoans(SelectSeq(LoansOf(DefaultLookBack),
                 LAMBDA loan : loan.amount >= trap.min_flash_loan_size))
        /\ a.high_impact_swaps =
             MapSwaps(SelectSeq(SwapsOf(DefaultLookBack),
                 LAMBDA swap : swap.price_impact >= trap.min_price_impact))

\* An alert on a window of three bundles that lists some but not all loans
\* and swaps of the last two.
C7_Witness ==
    /\ pc = "api"
    /\ Len(historical_data) = 3
    /\ \E a \in alerts :
          /\ Len(a.flash_loans) >= 1
          /\ Len(a.flash_loans) < Len(LoansOf(DefaultLookBack))
          /\ Len(a.high_impact_swaps) >= 1
          /\ Len(a.high_impact_swaps) < Len(SwapsOf(DefaultLookBack))

\* Some loan amount of the view is at least 100000 and some price impact of
\* the view is at least 5.
LargeLoanAndImpactIn(view) ==
    /\ \E b \in 1..Len(view) : \E i \in 1..Len(view[b].flash_loans) :
          view[b].flash_loans[i].amount >= 100000
    /\ \E b \in 1..Len(view) : \E j \in 1..Len(view[b].swaps) :
          view[b].swaps[j].price_impact >= 5

\* C8: SimpleFlashSandwichTrap.should_respond returns true exactly when the
\* last two blocks (or the single block) together hold a loan amount
\* >= 100000 and a price impact >= 5.0.
C8_SimpleRespondsIffLoanAndImpact ==
    \A r \in simple_responded :
        r = LargeLoanAndImpactIn(LookBack(historical_data, 2))

\* The quick test: a block with a small loan and a small impact, then a block
\* with a large loan and a high impact.
C8_Witness ==
    /\ pc = "api"
    /\ simple_responded = {TRUE}
    /\ Len(historical_data) = 2
    /\ ~LargeLoanAndImpactIn(SubSeq(historical_data, 1, 1))
    /\ historical_data[1].flash_loans /= <<>>
    /\ historical_data[1].swaps /= <<>>

DefaultThresholds ==
    /\ trap.min_flash_loan_size = DefaultMinFlashLoanSize
    /\ trap.min_price_impact = DefaultMinPriceImpact

NoEarlierResponse ==
    \A k \in 1..(Len(historical_data) - 1) :
        ~ShouldRespond(trap, SubSeq(historical_data, 1, k))

C10_LoopInvariant ==
    /\ Len(historical_data) <= LoopBlocks
    /\ \A i \in 1..Len(historical_data) :
          historical_data[i].block_number = current_block - LoopBlocks + i - 1
    /\ evaluated = Len(historical_data)
    /\ emitted <= 1
    /\ emitted = Cardinality(alerts)
    /\ NoEarlierResponse
    /\ emitted = 1 <=> ( /\ historical_data /= <<>>
                         /\ ShouldRespond(trap, historical_data) )
    /\ emitted = 1 => pc = "done"
    /\ (pc = "done" /\ emitted = 0) => Len(historical_data) = LoopBlocks

\* C10: the loop appends one bundle per block in strictly ascending block
\* order, evaluates should_respond once after each append and stops at the
\* first block for which it returns true: at most one alert per run, no block
\* processed after the alerting one, and the loop ends after at most 10
\* blocks.
C10_LoopStopsAtFirstAlert ==
    []C10_LoopInvariant /\ <>(pc = "done")

\* The loop ended with an alert on a block that is not the first.
C10_Witness ==
    /\ pc = "done"
    /\ emitted = 1
    /\ Len(historical_data) >= 3
    /\ Len(historical_data) < LoopBlocks

====
